---- MODULE Spec2Model ----
(***************************************************************************)
(* SnapSVG core (src-rust/src/lib.rs): the parameter mapper build_config,  *)
(* the sequential conversion trace_rgba_to_svg and the parallel conversion *)
(* trace_rgba_parallel with its Rayon fitting stage.                       *)
(*                                                                         *)
(* The library calls the source makes (vtracer::convert, Runner::run,      *)
(* to_compound_path, rayon's par_iter/collect, fastrand::seed) are modelled *)
(* at the place of the call by their documented behaviour; the segmentation *)
(* result and the fitted paths of an image are inputs chosen in Init.      *)
(***************************************************************************)
EXTENDS Integers, Sequences, FiniteSets, TLC

VARIABLES
    \* ---- parameter mapper
    knobs,        \* arguments of the latest call: color_count, path_precision, ...
    cfg,          \* TracerConfig built by the latest call
    mode,         \* ColorMode selected by the latest call
    prevKnobs,    \* arguments of the call before it (NoCall when there is none)
    prevCfg,      \* TracerConfig of the call before it
    swept,        \* the argument the caller varies from one call to the next
    \* ---- conversion pipeline
    wasm_threads, \* cargo feature "wasm-threads" of the build
    pool,         \* number of Rayon workers; 0 = no pool initialized
    poolInit,     \* outcome of the latest init_thread_pool call
    rng,          \* fastrand's thread-local generator state, per thread
    image,        \* the caller's buffer and what the libraries compute from it
    pc,           \* "idle" or "fitting" (trace_rgba_parallel between 289 and 306)
    cur,          \* locals of the running trace_rgba_parallel call
    running,      \* per worker thread: the task index it executes, 0 = none
    arrived,      \* fitting results in the order the tasks completed
    seen,         \* per task index: the generator state its thread had at start
    last,         \* outcome of the latest finished conversion call
    prev          \* outcome of the conversion call before it

mapperVars == <<knobs, cfg, mode, prevKnobs, prevCfg, swept>>
pipeVars == <<wasm_threads, pool, poolInit, rng, image, pc, cur, running, arrived, seen, last, prev>>
vars == <<knobs, cfg, mode, prevKnobs, prevCfg, swept,
          wasm_threads, pool, poolInit, rng, image, pc, cur, running, arrived, seen, last, prev>>

\* ------------------------------------------------------------------ bounds
\* Largest number of clusters the segmentation of an input image returns.
MaxClusters == 3
\* Largest worker count passed to init_thread_pool.
NumWorkers == 2
\* Generator states a freshly spawned thread may start from: 0..MaxSeed.
MaxSeed == 2

\* ------------------------------------------------------- program constants
\* Largest value of a u8 argument (color_count, path_precision, corner_threshold).
U8Max == 255
\* fastrand::seed(1)
FixedSeed == 1

NoCall == [none |-> TRUE]

\* ------------------------------------------------------------ build_config
Max(a, b) == IF a >= b THEN a ELSE b

Min(a, b) == IF a <= b THEN a ELSE b

\* A clamp that was forgotten: the value passes through.
ClampForgotten(x, lo, hi) == x

\* x.max(lo).min(hi)
Clamp(x, lo, hi) == Min(Max(x, lo), hi)

\* i32 division truncates toward zero.
TruncDiv(a, b) == IF a >= 0 THEN a \div b ELSE -((-a) \div b)

\* The last branch taken one colour late (<= 25 for <= 24).
LayerDiffOffByOne(color_count_clamped) ==
    IF color_count_clamped <= 8 THEN 16 - (color_count_clamped - 2)
    ELSE IF color_count_clamped <= 25 THEN 10 - TruncDiv(color_count_clamped - 9, 3)
    ELSE 4

\* let layer_diff = if .. else if .. else ..
LayerDiff(color_count_clamped) ==
    IF color_count_clamped <= 8 THEN 16 - (color_count_clamped - 2)
    ELSE IF color_count_clamped <= 24 THEN 10 - TruncDiv(color_count_clamped - 9, 3)
    ELSE 4

\* The mapping with its direction inverted: the term is added.
SpliceThresholdInverted(path_precision) ==
    Clamp(125 + TruncDiv(path_precision * 110, 100), 10, 135)

\* (125 - (path_precision as i32 * 110 / 100)).max(10).min(135)
SpliceThreshold(path_precision) ==
    Clamp(125 - TruncDiv(path_precision * 110, 100), 10, 135)

build_config(color_count, path_precision, corner_threshold, filter_speckle) ==
    LET color_count_clamped == Clamp(color_count, 2, 64)
        layer_diff == LayerDiff(color_count_clamped)
    IN  [ filter_speckle   |-> filter_speckle,
          color_precision  |-> 8,
          layer_difference |-> Clamp(layer_diff, 4, 16),
          corner_threshold |-> corner_threshold,
          length_threshold |-> 4,
          max_iterations   |-> 10,
          splice_threshold |-> SpliceThreshold(path_precision),
          path_precision   |-> 2,
          mode             |-> "Spline" ]

\* match color_mode { "binary" => ColorMode::Binary, _ => ColorMode::Color }
SelectMode(color_mode) == IF color_mode = "binary" THEN "Binary" ELSE "Color"

ConfigOf(k) ==
    build_config(k.color_count, k.path_precision, k.corner_threshold, k.filter_speckle)

\* ------------------------------------------------- inputs of the mapper
U8 == 0..U8Max

\* u32 filter_speckle: small areas and a very large one.
FilterSpeckles == {0, 1, 4, 2147483647}

\* &str color_mode: the two documented names and strings that are neither.
ColorModes == {"color", "binary", "", "Binary", "mono"}

KnobNames == {"color_count", "path_precision", "corner_threshold", "filter_speckle", "color_mode"}

\* Values the arguments that are not varied are held at.
PresetKnobs ==
    [ color_count      : {2, 16},
      path_precision   : {0, 80},
      corner_threshold : {60},
      filter_speckle   : {4},
      color_mode       : {"color"} ]

DefaultKnobs ==
    [ color_count |-> 16, path_precision |-> 80, corner_threshold |-> 60,
      filter_speckle |-> 4, color_mode |-> "color" ]

\* ------------------------------------------------- usize arithmetic
\* usize values are kept as little-endian sequences of 16-bit limbs, because
\* width * height * 4 of two u32 values needs up to 66 bits.
LimbBase == 256 * 256

\* Limbs kept for an exact product.
NLimbs == 2 + 3

\* Limbs of a usize on the wasm32 target (32 bits).
WordLimbs == 2

ToLimbs(n) ==
    [i \in 1..NLimbs |-> IF i = 1 THEN n % LimbBase
                         ELSE IF i = 2 THEN n \div LimbBase ELSE 0]

RECURSIVE AddLimbs(_, _, _, _)
AddLimbs(x, y, i, carry) ==
    IF i > NLimbs THEN <<>>
    ELSE LET s == x[i] + y[i] + carry
         IN  <<s % LimbBase>> \o AddLimbs(x, y, i + 1, s \div LimbBase)

RECURSIVE MulLimbs(_, _)
MulLimbs(x, n) ==
    IF n = 0 THEN ToLimbs(0)
    ELSE LET half == MulLimbs(x, n \div 2)
             twice == AddLimbs(half, half, 1, 0)
         IN  IF n % 2 = 1 THEN AddLimbs(twice, x, 1, 0) ELSE twice

\* The mathematical product width * height * 4.
ExactProduct(width, height) == MulLimbs(MulLimbs(ToLimbs(width), height), 4)

\* The value a usize keeps of x: x mod 2^32.
WrapWord(x) == [i \in 1..NLimbs |-> IF i <= WordLimbs THEN x[i] ELSE 0]

\* x does not fit a usize: the multiplication overflows.
Overflows(x) == \E i \in (WordLimbs + 1)..NLimbs : x[i] # 0

\* let expected_len = w * h * 4;  (wrapping, as built without overflow checks)
expected_len(width, height) == WrapWord(ExactProduct(width, height))

\* ------------------------------------------------- inputs of a conversion
Threads == 0..NumWorkers
Caller == 0
Seeds == 0..MaxSeed

\* (width, height, rgba_data.len()) of buffers no cluster is traced from:
\* mismatched lengths, and sizes whose product passes 2^32.
PlainGeometries ==
    { <<1, 1, 3>>, <<1, 1, 5>>, <<2, 2, 15>>, <<3, 0, 4>>,
      <<65536, 16384, 0>>, <<65536, 16384, 4>>, <<65536, 16385, 262144>>,
      <<65536, 65536, 0>> }

\* A 2 x 2 image: 16 bytes.
TracedGeometry == <<2, 2, 16>>

\* Runner::run's clusters_output for an image with n clusters, and the set of
\* clusters whose fitted path renders to the empty string.
Images ==
    { [ width |-> g[1], height |-> g[2], len |-> g[3],
        clusters_output |-> <<>>, empty |-> {} ] : g \in PlainGeometries }
    \cup
    { [ width |-> TracedGeometry[1], height |-> TracedGeometry[2], len |-> TracedGeometry[3],
        clusters_output |-> [i \in 1..n |-> i], empty |-> e ] :
        <<n, e>> \in { <<m, s>> \in (0..MaxClusters) \X (SUBSET (1..MaxClusters)) :
                         s \subseteq 1..m } }

\* ------------------------------------------------- SVG text
\* SVG text is a sequence of tokens; NL is the newline byte.
NL == <<"\n">>

\* <svg xmlns="http://www.w3.org/2000/svg" viewBox="0 0 {w} {h}">
SvgOpen(w, h) == <<"<svg viewBox>", w, h>>

SvgClose == <<"</svg>">>

Reverse(s) == [i \in 1..Len(s) |-> s[Len(s) + 1 - i]]

\* view.clusters_output.iter().rev().copied().collect()
ClusterIndices(clusters_output) == Reverse(clusters_output)

\* cluster.to_compound_path(..): the fitted outline of one cluster.
to_compound_path(cluster_index) ==
    [ of |-> cluster_index, is_empty |-> cluster_index \in image.empty ]

\* cluster.residue_color()
residue_color(cluster_index) == <<"color", cluster_index>>

\* compound_path.to_svg_string(true, PointF64::default(), cfg.path_precision)
to_svg_string(compound_path, path_precision) ==
    IF compound_path.is_empty
    THEN [ path_str |-> <<>>, offset |-> <<"offset", compound_path.of, path_precision>> ]
    ELSE [ path_str |-> <<"d", compound_path.of, path_precision>>,
           offset   |-> <<"offset", compound_path.of, path_precision>> ]

\* <path d="{}" fill="{}" transform="translate({:.2},{:.2})"/>
PathElement(path_str, color_str, offset) == <<"<path/>", path_str, color_str, offset>>

\* The closure of filter_map for the task at position index of cluster_indices.
Fit(cluster_indices, index) ==
    [ index |-> index,
      cluster |-> cluster_indices[index],
      paths |-> to_compound_path(cluster_indices[index]),
      color |-> residue_color(cluster_indices[index]) ]

\* A collect that keeps the results as they complete.
CollectByCompletion(done, n) == done

\* .collect() of the indexed parallel iterator: the results by position.
Collect(done, n) ==
    [k \in 1..n |-> CHOOSE r \in {done[j] : j \in 1..Len(done)} : r.index = k]

\* The loop body with the emptiness test left out.
ComposePathUnfiltered(r, path_precision) ==
    LET s == to_svg_string(r.paths, path_precision)
    IN  <<PathElement(s.path_str, r.color, s.offset), NL>>

\* One iteration of `for (compound_path, color) in path_results`.
ComposePath(r, path_precision) ==
    LET s == to_svg_string(r.paths, path_precision)
    IN  IF s.path_str # <<>> THEN <<PathElement(s.path_str, r.color, s.offset), NL>>
        ELSE <<>>

RECURSIVE ComposePaths(_, _, _)
ComposePaths(path_results, k, path_precision) ==
    IF k > Len(path_results) THEN <<>>
    ELSE ComposePath(path_results[k], path_precision)
         \o ComposePaths(path_results, k + 1, path_precision)

\* Lines 309-330: writeln!(header), the loop, writeln!("</svg>").
ComposeParallel(w, h, path_results, path_precision) ==
    <<SvgOpen(w, h), NL>> \o ComposePaths(path_results, 1, path_precision)
    \o <<SvgClose, NL>>

\* vtracer::convert(color_image, config): svg_file.paths, each already rendered
\* by p.to_string(). Taken to be the elements the parallel conversion emits for
\* the same image, in the same order.
convert(img, config) ==
    LET idx == ClusterIndices(img.clusters_output)
        one(k) == ComposePath(Fit(idx, k), config.path_precision)
    IN  SelectSeq([k \in 1..Len(idx) |-> IF one(k) = <<>> THEN <<>> ELSE one(k)[1]],
                  LAMBDA e : e # <<>>)

RECURSIVE Join(_, _)
Join(strs, sep) ==
    IF strs = <<>> THEN <<>>
    ELSE IF Len(strs) = 1 THEN <<strs[1]>>
    ELSE <<strs[1], sep>> \o Join(Tail(strs), sep)

\* Lines 209-219: format!("<svg ..>\n{}\n</svg>", paths joined by "\n").
ComposeSequential(w, h, paths) ==
    <<SvgOpen(w, h), NL>> \o Join(paths, NL) \o <<NL, SvgClose>>

\* ------------------------------------------------- conversion calls
GeometryError == [kind |-> "GeometryError"]

Panicked(why) == [kind |-> "panic", why |-> why]

Ok(svg) == [kind |-> "Ok", svg |-> svg]

NoImage == [none |-> TRUE]

\* ColorImage { pixels: rgba_data.to_vec(), width: w, height: h }
ColorImage(img) == [pixels_len |-> img.len, width |-> img.width, height |-> img.height]

\* What is kept of a finished call.
Outcome(fn, result, color_image, indices, path_results, completion, seenAt) ==
    [ fn |-> fn, result |-> result, pool |-> pool, color_image |-> color_image,
      cluster_indices |-> indices, path_results |-> path_results,
      completion |-> completion, seen |-> seenAt ]

\* What is kept of the call before the latest one.
Summary(o) ==
    IF o = NoCall THEN NoCall
    ELSE [fn |-> o.fn, result |-> o.result, pool |-> o.pool, seen |-> o.seen]

\* The call returns (or traps) without a fitting stage.
Return(o) ==
    /\ last' = o
    /\ prev' = Summary(last)
    /\ UNCHANGED <<pc, cur, running, arrived, seen>>

\* fastrand::seed(1): the generator of the thread that calls it.
Seed(thread) == rng' = [rng EXCEPT ![thread] = FixedSeed]

\* pub fn trace_rgba_to_svg (color mode), lines 157-222.
trace_rgba_to_svg ==
    /\ pc = "idle"
    /\ Seed(Caller)
    /\ \E overflow_checks \in BOOLEAN :
        LET exact == ExactProduct(image.width, image.height)
            config == ConfigOf(knobs)
            none == <<>>
        IN  IF Overflows(exact) /\ overflow_checks
            THEN Return(Outcome("seq", Panicked("attempt to multiply with overflow"),
                                NoImage, none, none, none, none))
            ELSE IF ToLimbs(image.len) # expected_len(image.width, image.height)
            THEN Return(Outcome("seq", GeometryError, NoImage, none, none, none, none))
            ELSE Return(Outcome("seq",
                                Ok(ComposeSequential(image.width, image.height,
                                                     convert(image, config))),
                                ColorImage(image), none, none, none, none))
    /\ UNCHANGED <<wasm_threads, pool, poolInit, image>>
    /\ UNCHANGED mapperVars

\* pub fn trace_rgba_parallel, lines 232-289: up to the start of the parallel iterator.
trace_rgba_parallel ==
    /\ pc = "idle"
    /\ Seed(Caller)
    /\ \E overflow_checks \in BOOLEAN, fallback \in BOOLEAN :
        LET exact == ExactProduct(image.width, image.height)
            config == ConfigOf(knobs)
            indices == ClusterIndices(image.clusters_output)
            none == <<>>
        IN  IF Overflows(exact) /\ overflow_checks
            THEN Return(Outcome("par", Panicked("attempt to multiply with overflow"),
                                NoImage, none, none, none, none))
            ELSE IF ToLimbs(image.len) # expected_len(image.width, image.height)
            THEN Return(Outcome("par", GeometryError, NoImage, none, none, none, none))
            ELSE IF pool = 0 /\ ~fallback
            THEN Return(Outcome("par",
                                Panicked("The global thread pool has not been initialized."),
                                ColorImage(image), indices, none, none, none))
            ELSE /\ pc' = "fitting"
                 /\ cur' = [ color_image |-> ColorImage(image), cfg |-> config,
                             cluster_indices |-> indices, on_caller |-> (pool = 0),
                             pool |-> pool ]
                 /\ running' = [t \in Threads |-> 0]
                 /\ arrived' = <<>>
                 /\ seen' = [i \in 1..Len(indices) |-> -1]
                 /\ prev' = Summary(last)
                 /\ last' = NoCall
    /\ UNCHANGED <<wasm_threads, pool, poolInit, image>>
    /\ UNCHANGED mapperVars

Tasks == 1..Len(cur.cluster_indices)

IsDone(i) == \E j \in 1..Len(arrived) : arrived[j].index = i

IsRunning(i) == \E t \in Threads : running[t] = i

IsTodo(i) == ~IsDone(i) /\ ~IsRunning(i)

\* The threads that execute the tasks of this call: the pool's workers, or the
\* calling thread when Rayon runs the iterator without a pool.
FittingThreads == IF cur.on_caller THEN {Caller} ELSE 1..cur.pool

\* A thread takes task i and enters the closure (line 291).
TaskStart(t, i) ==
    /\ pc = "fitting"
    /\ t \in FittingThreads
    /\ running[t] = 0
    /\ i \in Tasks
    /\ IsTodo(i)
    /\ cur.on_caller => \A j \in Tasks : IsTodo(j) => i <= j
    /\ running' = [running EXCEPT ![t] = i]
    /\ seen' = [seen EXCEPT ![i] = rng[t]]
    /\ UNCHANGED <<wasm_threads, pool, poolInit, rng, image, pc, cur, arrived, last, prev>>
    /\ UNCHANGED mapperVars

\* The closure returns Some((paths, color)) (lines 292-304).
TaskFinish(t) ==
    /\ pc = "fitting"
    /\ running[t] # 0
    /\ arrived' = Append(arrived, Fit(cur.cluster_indices, running[t]))
    /\ running' = [running EXCEPT ![t] = 0]
    /\ UNCHANGED <<wasm_threads, pool, poolInit, rng, image, pc, cur, seen, last, prev>>
    /\ UNCHANGED mapperVars

\* Lines 306-330: collect, compose the SVG, return Ok(svg).
trace_rgba_parallel_finish ==
    /\ pc = "fitting"
    /\ \A i \in Tasks : IsDone(i)
    /\ LET path_results == Collect(arrived, Len(cur.cluster_indices))
           svg == ComposeParallel(cur.color_image.width, cur.color_image.height,
                                  path_results, cur.cfg.path_precision)
       IN  last' = [ Outcome("par", Ok(svg), cur.color_image, cur.cluster_indices,
                             path_results,
                             [j \in 1..Len(arrived) |-> arrived[j].index], seen)
                     EXCEPT !.pool = cur.pool ]
    /\ pc' = "idle"
    /\ cur' = NoCall
    /\ arrived' = <<>>
    /\ seen' = <<>>
    /\ UNCHANGED <<wasm_threads, pool, poolInit, rng, image, running, prev>>
    /\ UNCHANGED mapperVars

\* init_thread_pool(worker_count): with the feature, wasm_bindgen_rayon's
\* (line 15), which builds the global pool once; without it, the stub of
\* lines 33-37, which returns Err.
init_thread_pool(worker_count) ==
    /\ pc = "idle"
    /\ IF wasm_threads /\ pool = 0
       THEN pool' = worker_count /\ poolInit' = "Ok"
       ELSE pool' = pool /\ poolInit' = "Err"
    /\ UNCHANGED <<wasm_threads, rng, image, pc, cur, running, arrived, seen, last, prev>>
    /\ UNCHANGED mapperVars

MapperIdle ==
    /\ knobs = DefaultKnobs
    /\ cfg = NoCall
    /\ mode = "none"
    /\ prevKnobs = NoCall
    /\ prevCfg = NoCall
    /\ swept = "none"

PipeIdle ==
    /\ pool = 0
    /\ poolInit = "never"
    /\ pc = "idle"
    /\ cur = NoCall
    /\ running = [t \in Threads |-> 0]
    /\ arrived = <<>>
    /\ seen = <<>>
    /\ last = NoCall
    /\ prev = NoCall

\* Every thread's generator starts from the same state.
Init ==
    /\ MapperIdle
    /\ PipeIdle
    /\ wasm_threads \in BOOLEAN
    /\ image \in Images
    /\ \E s \in Seeds : rng = [t \in Threads |-> s]

Next ==
    \/ trace_rgba_to_svg
    \/ trace_rgba_parallel
    \/ \E t \in Threads, i \in 1..MaxClusters : TaskStart(t, i)
    \/ \E t \in Threads : TaskFinish(t)
    \/ trace_rgba_parallel_finish
    \/ \E n \in 1..NumWorkers : init_thread_pool(n)

Spec == Init /\ [][Next]_vars

\* Each spawned thread's generator starts from a state of its own.
InitRng ==
    /\ MapperIdle
    /\ PipeIdle
    /\ wasm_threads \in BOOLEAN
    /\ image \in {img \in Images : img.empty = {}}
    /\ rng \in [Threads -> Seeds]

SpecRng == InitRng /\ [][Next]_vars

\* ------------------------------------------------- the mapper, call by call
KnobValues(name) ==
    CASE name = "color_count" -> U8
      [] name = "path_precision" -> U8
      [] name = "corner_threshold" -> U8
      [] name = "filter_speckle" -> FilterSpeckles
      [] name = "color_mode" -> ColorModes

\* Lines 185-190 (116-121): select the mode and build the configuration from
\* the arguments k.
MapParameters(k) ==
    /\ knobs' = k
    /\ cfg' = ConfigOf(k)
    /\ mode' = SelectMode(k.color_mode)

\* The caller's first call, with the arguments chosen in Init.
FirstCall ==
    /\ cfg = NoCall
    /\ MapParameters(knobs)
    /\ UNCHANGED <<prevKnobs, prevCfg, swept>>
    /\ UNCHANGED pipeVars

\* The caller's second call: the first one's arguments but for `name`.
SecondCall(name, v) ==
    /\ swept = name
    /\ cfg # NoCall
    /\ prevKnobs = NoCall
    /\ prevKnobs' = knobs
    /\ prevCfg' = cfg
    /\ MapParameters([knobs EXCEPT ![name] = v])
    /\ UNCHANGED swept
    /\ UNCHANGED pipeVars

SetColorCount == \E v \in KnobValues("color_count") : SecondCall("color_count", v)

SetPathPrecision == \E v \in KnobValues("path_precision") : SecondCall("path_precision", v)

SetCornerThreshold == \E v \in KnobValues("corner_threshold") : SecondCall("corner_threshold", v)

SetFilterSpeckle == \E v \in KnobValues("filter_speckle") : SecondCall("filter_speckle", v)

SetColorMode == \E v \in KnobValues("color_mode") : SecondCall("color_mode", v)

\* The arguments of the first call: every one but the varied one at a preset value.
InitMapper ==
    /\ swept \in KnobNames
    /\ \E k \in PresetKnobs, v \in KnobValues(swept) : knobs = [k EXCEPT ![swept] = v]
    /\ cfg = NoCall
    /\ mode = "none"
    /\ prevKnobs = NoCall
    /\ prevCfg = NoCall
    /\ PipeIdle
    /\ wasm_threads = FALSE
    /\ image = [ width |-> 0, height |-> 0, len |-> 0, clusters_output |-> <<>>, empty |-> {} ]
    /\ rng = [t \in Threads |-> 0]

NextMapper ==
    \/ FirstCall
    \/ SetColorCount
    \/ SetPathPrecision
    \/ SetCornerThreshold
    \/ SetFilterSpeckle
    \/ SetColorMode

SpecMapper == InitMapper /\ [][NextMapper]_vars

\* ================================================================ claims
ExactMatch == ToLimbs(image.len) = ExactProduct(image.width, image.height)

FinishedOk(o) == o # NoCall /\ o.result.kind = "Ok"

\* C1: for a buffer of the right length the sequential conversion and the
\* parallel conversion return byte-identical SVG text.
C1_SeqParByteIdentical ==
    (FinishedOk(last) /\ FinishedOk(prev) /\ last.fn # prev.fn)
        => last.result.svg = prev.result.svg

\* C2: whatever the worker count and the order in which the fitting tasks start
\* and complete, the collected sequence has one result per cluster and its i-th
\* result is the one computed from the i-th cluster of the reversed
\* clusters_output.
C2_ResultsFollowClusterOrder ==
    (FinishedOk(last) /\ last.fn = "par") =>
        LET n == Len(image.clusters_output)
        IN  /\ Len(last.path_results) = n
            /\ \A i \in 1..n :
                LET c == image.clusters_output[n + 1 - i]
                IN  /\ last.path_results[i].cluster = c
                    /\ last.path_results[i].paths = to_compound_path(c)
                    /\ last.path_results[i].color = residue_color(c)

\* C2 witness: a parallel conversion on two or more workers has returned whose
\* tasks completed in an order other than their positions.
C2_Witness ==
    /\ FinishedOk(last)
    /\ last.fn = "par"
    /\ last.pool >= 2
    /\ Len(last.completion) >= 3
    /\ \E j \in 1..(Len(last.completion) - 1) : last.completion[j] > last.completion[j + 1]

\* C3: two parallel conversions of the same input on the same pool give every
\* fitting task the same random generator state (the state seeded with 1 at the
\* start of the conversion), whichever thread runs the task.
C3_SameRandomStateInBothRuns ==
    (FinishedOk(last) /\ FinishedOk(prev) /\ last.fn = "par" /\ prev.fn = "par"
        /\ last.pool = prev.pool)
        => last.seen = prev.seen

\* C4: a call whose buffer length differs from the exact product
\* width * height * 4 returns the geometry error and hands no image to
\* segmentation, so every image handed to segmentation has that length.
C4_GeometryErrorOnMismatch ==
    /\ (last # NoCall /\ ~ExactMatch)
         => (last.result = GeometryError /\ last.color_image = NoImage)
    /\ (pc = "fitting") => ExactMatch

\* C5: a parallel conversion of a well-formed buffer called while no worker pool
\* is initialized fails with PoolNotInitialized.
C5_PoolNotInitialized ==
    (last # NoCall /\ last.fn = "par" /\ last.pool = 0 /\ ExactMatch)
        => last.result.kind = "PoolNotInitialized"

\* The path strings of the fitted results, rendered as the composer renders them.
Rendered(r) == to_svg_string(r.paths, ConfigOf(knobs).path_precision)

\* C10: between the <svg> root line and the closing </svg> line the parallel
\* conversion's SVG holds exactly one <path> line for each result whose path
\* string is non-empty, none for an empty one, in the order of the results.
C10_OnePathPerNonEmptyResult ==
    (FinishedOk(last) /\ last.fn = "par") =>
        LET svg == last.result.svg
            body == SubSeq(svg, 3, Len(svg) - 2)
            kept == SelectSeq(last.path_results, LAMBDA r : Rendered(r).path_str # <<>>)
        IN  /\ Len(svg) >= 4
            /\ svg[1] = SvgOpen(image.width, image.height)
            /\ svg[2] = NL
            /\ svg[Len(svg) - 1] = SvgClose
            /\ svg[Len(svg)] = NL
            /\ Len(body) = 2 * Len(kept)
            /\ \A k \in 1..Len(kept) :
                /\ body[2 * k - 1] = PathElement(Rendered(kept[k]).path_str, kept[k].color,
                                                 Rendered(kept[k]).offset)
                /\ body[2 * k] = NL

\* C10 witness: a parallel conversion has returned whose results hold an empty
\* path between two non-empty ones.
C10_Witness ==
    /\ FinishedOk(last)
    /\ last.fn = "par"
    /\ Len(last.path_results) >= 3
    /\ Rendered(last.path_results[1]).path_str # <<>>
    /\ Rendered(last.path_results[2]).path_str = <<>>
    /\ Rendered(last.path_results[3]).path_str # <<>>
    /\ Len(last.result.svg) = 8

Built == cfg # NoCall

Second == prevKnobs # NoCall

OthersEqual(name) == \A k \in KnobNames \ {name} : prevKnobs[k] = knobs[k]

\* C6: layerDifference is, for colorCount clamped to [2,64], 16 - (c-2) on [2,8],
\* 10 - floor((c-9)/3) on [9,24] and 4 above 24, clamped to [4,16]; it never
\* increases as colorCount increases.
C6_LayerDifferenceStepDown ==
    LET c == IF knobs.color_count < 2 THEN 2
             ELSE IF knobs.color_count > 64 THEN 64 ELSE knobs.color_count
        documented == IF c \in 2..8 THEN 16 - (c - 2)
                      ELSE IF c \in 9..24 THEN 10 - ((c - 9) \div 3)
                      ELSE 4
    IN  Built =>
          /\ cfg.layer_difference = documented
          /\ cfg.layer_difference \in 4..16
          /\ (Second /\ prevKnobs.color_count <= knobs.color_count)
               => prevCfg.layer_difference >= cfg.layer_difference

\* C6 witness: a call with colorCount 24 followed by one with colorCount 25.
C6_Witness ==
    /\ Second
    /\ prevKnobs.color_count = 24
    /\ knobs.color_count = 25
    /\ prevCfg.layer_difference = 5
    /\ cfg.layer_difference = 4

\* C7: for a colorCount below 2 the whole TracerConfig equals the one built for
\* 2, and for a colorCount above 64 the one built for 64, the other arguments
\* being equal.
C7_ColorCountClamped ==
    (Second /\ OthersEqual("color_count")
        /\ \/ (prevKnobs.color_count < 2 /\ knobs.color_count = 2)
           \/ (prevKnobs.color_count > 64 /\ knobs.color_count = 64))
        => prevCfg = cfg

\* C7 witness: a call with colorCount 0 followed by one with colorCount 2, and
\* nothing else changed.
C7_Witness ==
    /\ Second
    /\ OthersEqual("color_count")
    /\ prevKnobs.color_count = 0
    /\ knobs.color_count = 2
    /\ cfg.layer_difference = 16

\* C8: the splice threshold never increases when pathPrecision increases; it is
\* 125 at pathPrecision 0 and 15 at pathPrecision 100.
C8_SpliceThresholdMonotone ==
    /\ (Second /\ prevKnobs.path_precision <= knobs.path_precision)
         => prevCfg.splice_threshold >= cfg.splice_threshold
    /\ (Built /\ knobs.path_precision = 0) => cfg.splice_threshold = 125
    /\ (Built /\ knobs.path_precision = 100) => cfg.splice_threshold = 15

\* C8 witness: a call with pathPrecision 0 followed by one with pathPrecision 100.
C8_Witness ==
    /\ Second
    /\ prevKnobs.path_precision = 0
    /\ knobs.path_precision = 100
    /\ prevCfg.splice_threshold = 125
    /\ cfg.splice_threshold = 15

\* C9: for every accepted argument the mapper succeeds and the configuration
\* lies in the documented ranges: layerDifference in [4,16], spliceThreshold in
\* [10,135], cornerThreshold in [0,180], colorMode color or binary.
C9_ConfigInDocumentedRanges ==
    Built =>
        /\ cfg.layer_difference \in 4..16
        /\ cfg.splice_threshold \in 10..135
        /\ cfg.corner_threshold \in 0..180
        /\ mode \in {"Color", "Binary"}

====
